---- MODULE Spec2Model ----
(***************************************************************************)
(* Model of the Go project indexer of mermgen: mergeFileData folds the     *)
(* facts extracted from one file into the shared ProjectData, and          *)
(* ParseGoProject walks a directory tree, extracts and merges each file.   *)
(***************************************************************************)
EXTENDS Integers, Sequences, FiniteSets, TLC

\* Number of mergeFileData calls in one behaviour of Spec.
MaxFiles == 2

(***************************************************************************)
(* Values.  A Go map is a function on the set of its keys.  The result of  *)
(* a checked type assertion  v, ok := m[key].(T)  is the record            *)
(* [ok, val]: ok is FALSE when the key is missing or holds another type.   *)
(***************************************************************************)
EmptyMap == [k \in {} |-> k]

Put(m, k, v) == [x \in (DOMAIN m) \cup {k} |-> IF x = k THEN v ELSE m[x]]

SomeV(v) == [ok |-> TRUE, val |-> v]

NoString == [ok |-> FALSE, val |-> ""]

NoList == [ok |-> FALSE, val |-> << >>]

PackageNames == {"p", "q"}

ImportPaths == {"x", "y"}

TypeNames == {"T"}

FuncNames == {"T", "m"}



\* typeInfo maps built by extractInformation: "name" and, for struct and
\* interface declarations only, "kind".
TypeInfo(name, kind) == [name |-> name, kind |-> kind]

\* functionInfo maps: "name" and, for a method, "receiver".
FuncInfo(name, receiver) == [name |-> name, receiver |-> receiver]

ImportLists == {SomeV(<< >>), SomeV(<<"x">>), SomeV(<<"x", "y">>)}

TypeLists ==
    { SomeV(<< >>),
      SomeV(<<TypeInfo(SomeV("T"), SomeV("struct"))>>),
      SomeV(<<TypeInfo(SomeV("T"), SomeV("interface")), TypeInfo(SomeV("T"), NoString)>>) }

FuncLists ==
    { SomeV(<< >>),
      SomeV(<<FuncInfo(SomeV("m"), NoString)>>),
      SomeV(<<FuncInfo(SomeV("m"), SomeV("T"))>>),
      SomeV(<<FuncInfo(SomeV("m"), SomeV("T")), FuncInfo(SomeV("T"), NoString)>>) }

\* The fileData maps handed to mergeFileData.
FileFacts ==
    [ package : {NoString} \cup {SomeV(p) : p \in PackageNames},
      imports : ImportLists,
      types : TypeLists,
      functions : FuncLists ]

NoFile == [package |-> NoString, imports |-> NoList, types |-> NoList, functions |-> NoList]

VARIABLES
    projectData,   \* the *ProjectData being built
    fileData,      \* the fileData argument of the latest mergeFileData call
    nMerged,       \* number of mergeFileData calls made so far
    tree,          \* ParseGoProject: the entries under the root, in walk order
    pos,           \* ParseGoProject: index of the next entry the walk visits
    outcome,       \* ParseGoProject: "walking", "ok" or "error"; "direct" in Spec
    firstDecl,     \* history: <<package, type>> -> kind and call of the first declaration merged
    nImported,     \* history: <<package, path>> -> import entries merged so far
    declared,      \* history: the package names the merged files declared
    dropped,       \* history: the method facts merged while their receiver was unknown
    inMerge,       \* the mergeFileData calls in progress, each with its position
    diagram,       \* generateClassDiagram: its position, loop variables and output
    perm,          \* the files of a project and those of them not merged yet
    ai,            \* GenerateDiagrams and callAI: position, clock, lastAPICall, results
    extract,       \* extractMermaidCode: a content and the code taken from it
    acq            \* CloneRepository, FetchSingleFile: calls made, files kept, last return

otherVars == <<perm, ai, extract, acq>>

vars == <<projectData, fileData, nMerged, tree, pos, outcome,
          firstDecl, nImported, declared, dropped, inMerge, diagram, otherVars>>

stepVars == <<inMerge, diagram, otherVars>>

histVars == <<firstDecl, nImported, declared, dropped>>

walkVars == <<tree, pos, outcome>>

(***************************************************************************)
(* ProjectData as ParseGoProject constructs it.                            *)
(***************************************************************************)
NewProjectData == [Packages |-> EmptyMap, Imports |-> EmptyMap, Relations |-> EmptyMap]

NewPackageData(packageName) ==
    [Name |-> packageName, Types |-> EmptyMap, Functions |-> EmptyMap]

\* Implements is left nil.
NewTypeData(typeName, kind) ==
    [Name |-> typeName, Kind |-> kind, Fields |-> EmptyMap, Methods |-> EmptyMap,
     Implements |-> << >>]

\* ptr is the identity of the allocated object: each &FunctionData{...} is a
\* fresh allocation, named here by the call and the position that made it.
NewFunctionData(funcName, ptr) ==
    [Name |-> funcName, Receiver |-> "", Parameters |-> << >>, Returns |-> << >>,
     ptr |-> ptr]

(***************************************************************************)
(* mergeFileData, block by block.                                          *)
(***************************************************************************)
\* Variant of CreatePackage: every file starts its package afresh.
CreatePackageReset(pd, packageName) ==
    [pd EXCEPT !.Packages = Put(@, packageName, NewPackageData(packageName))]

\* "Create package if it doesn't exist"
CreatePackage(pd, packageName) ==
    IF packageName \in DOMAIN pd.Packages
    THEN pd
    ELSE [pd EXCEPT !.Packages = Put(@, packageName, NewPackageData(packageName))]

\* projectData.Imports[packageName]: nil for a missing key.
ImportsOf(pd, packageName) ==
    IF packageName \in DOMAIN pd.Imports THEN pd.Imports[packageName] ELSE << >>

\* Variant of AddImports: a path already listed is not appended again.
AddImportsDedup(pd, packageName, imports) ==
    IF imports.ok
    THEN LET old == ImportsOf(pd, packageName)
             fresh == SelectSeq(imports.val, LAMBDA x : \A j \in 1..Len(old) : old[j] # x)
         IN  [pd EXCEPT !.Imports = Put(@, packageName, old \o fresh)]
    ELSE pd

\* Variant of AddImports: the new paths are put in front of the list.
AddImportsPrepend(pd, packageName, imports) ==
    IF imports.ok
    THEN [pd EXCEPT !.Imports = Put(@, packageName, imports.val \o ImportsOf(pd, packageName))]
    ELSE pd

\* "Add imports"
AddImports(pd, packageName, imports) ==
    IF imports.ok
    THEN [pd EXCEPT !.Imports = Put(@, packageName, ImportsOf(pd, packageName) \o imports.val)]
    ELSE pd

\* kind, _ := typeInfo["kind"].(string)
KindOf(typeInfo) == IF typeInfo.kind.ok THEN typeInfo.kind.val ELSE ""

\* Variant of AddType: a duplicate declaration replaces the registered type.
AddTypeLastWins(pd, packageName, typeInfo) ==
    IF ~typeInfo.name.ok
    THEN pd
    ELSE [pd EXCEPT !.Packages[packageName].Types =
              Put(@, typeInfo.name.val, NewTypeData(typeInfo.name.val, KindOf(typeInfo)))]

\* Variant of AddType: a duplicate declaration is merged into the registered
\* type, its kind noted as a field of the TypeData.
AddTypeMergesDuplicate(pd, packageName, typeInfo) ==
    IF ~typeInfo.name.ok
    THEN pd
    ELSE LET typeName == typeInfo.name.val
         IN  IF typeName \in DOMAIN pd.Packages[packageName].Types
             THEN [pd EXCEPT !.Packages[packageName].Types[typeName].Fields =
                       Put(@, "kind", KindOf(typeInfo))]
             ELSE [pd EXCEPT !.Packages[packageName].Types =
                       Put(@, typeName, NewTypeData(typeName, KindOf(typeInfo)))]

\* Variant of AddType: a name a free function of the package already bears
\* is not registered as a type.
AddTypeUnlessFunction(pd, packageName, typeInfo) ==
    IF ~typeInfo.name.ok
    THEN pd
    ELSE LET typeName == typeInfo.name.val
         IN  IF typeName \in DOMAIN pd.Packages[packageName].Types
                \/ typeName \in DOMAIN pd.Packages[packageName].Functions
             THEN pd
             ELSE [pd EXCEPT !.Packages[packageName].Types =
                       Put(@, typeName, NewTypeData(typeName, KindOf(typeInfo)))]

\* One iteration of the loop over types.
AddType(pd, packageName, typeInfo) ==
    IF ~typeInfo.name.ok
    THEN pd
    ELSE LET typeName == typeInfo.name.val
         IN  IF typeName \in DOMAIN pd.Packages[packageName].Types
             THEN pd
             ELSE [pd EXCEPT !.Packages[packageName].Types =
                       Put(@, typeName, NewTypeData(typeName, KindOf(typeInfo)))]

RECURSIVE AddTypeList(_, _, _)
AddTypeList(pd, packageName, list) ==
    IF list = << >>
    THEN pd
    ELSE AddTypeList(AddType(pd, packageName, Head(list)), packageName, Tail(list))

\* "Add types"
AddTypes(pd, packageName, types) ==
    IF types.ok THEN AddTypeList(pd, packageName, types.val) ELSE pd

\* Variant of AddFunction: a method whose receiver is unknown is registered
\* as a free function instead of being dropped.
AddFunctionFallback(pd, packageName, funcInfo, ptr) ==
    IF ~funcInfo.name.ok
    THEN pd
    ELSE LET funcName == funcInfo.name.val
             function == NewFunctionData(funcName, ptr)
         IN  IF funcInfo.receiver.ok
                /\ funcInfo.receiver.val \in DOMAIN pd.Packages[packageName].Types
             THEN [pd EXCEPT !.Packages[packageName].Types[funcInfo.receiver.val].Methods =
                       Put(@, funcName, [function EXCEPT !.Receiver = funcInfo.receiver.val])]
             ELSE [pd EXCEPT !.Packages[packageName].Functions =
                       Put(@, funcName,
                           [function EXCEPT !.Receiver =
                                IF funcInfo.receiver.ok THEN funcInfo.receiver.val ELSE ""])]

\* Variant of AddFunction: types and free functions share one namespace, a
\* free function named like a registered type is not registered.
AddFunctionSharedNames(pd, packageName, funcInfo, ptr) ==
    IF ~funcInfo.name.ok
    THEN pd
    ELSE LET funcName == funcInfo.name.val
             function == NewFunctionData(funcName, ptr)
         IN  IF funcInfo.receiver.ok
             THEN LET receiver == funcInfo.receiver.val
                  IN  IF receiver \in DOMAIN pd.Packages[packageName].Types
                      THEN [pd EXCEPT !.Packages[packageName].Types[receiver].Methods =
                                Put(@, funcName, [function EXCEPT !.Receiver = receiver])]
                      ELSE pd
             ELSE IF funcName \in DOMAIN pd.Packages[packageName].Types
             THEN pd
             ELSE [pd EXCEPT !.Packages[packageName].Functions =
                       Put(@, funcName, function)]

\* Variant of AddFunction: a method attached to its receiver is registered
\* as a function of the package as well.
AddFunctionAlsoFree(pd, packageName, funcInfo, ptr) ==
    IF ~funcInfo.name.ok
    THEN pd
    ELSE LET funcName == funcInfo.name.val
             function == NewFunctionData(funcName, ptr)
         IN  IF funcInfo.receiver.ok
             THEN LET receiver == funcInfo.receiver.val
                      method == [function EXCEPT !.Receiver = receiver]
                  IN  IF receiver \in DOMAIN pd.Packages[packageName].Types
                      THEN [pd EXCEPT !.Packages[packageName].Types[receiver].Methods =
                                Put(@, funcName, method),
                                      !.Packages[packageName].Functions =
                                Put(@, funcName, method)]
                      ELSE pd
             ELSE [pd EXCEPT !.Packages[packageName].Functions =
                       Put(@, funcName, function)]

\* Variant of AddFunction: a receiver the file's package does not declare is
\* looked up in the other packages, and the method attached where it is found.
AddFunctionAnyPackage(pd, packageName, funcInfo, ptr) ==
    IF ~funcInfo.name.ok
    THEN pd
    ELSE LET funcName == funcInfo.name.val
             function == NewFunctionData(funcName, ptr)
         IN  IF funcInfo.receiver.ok
             THEN LET receiver == funcInfo.receiver.val
                      method == [function EXCEPT !.Receiver = receiver]
                      others == {q \in DOMAIN pd.Packages :
                                    receiver \in DOMAIN pd.Packages[q].Types}
                  IN  IF receiver \in DOMAIN pd.Packages[packageName].Types
                      THEN [pd EXCEPT !.Packages[packageName].Types[receiver].Methods =
                                Put(@, funcName, method)]
                      ELSE IF others # {}
                      THEN [pd EXCEPT !.Packages[CHOOSE q \in others : TRUE]
                                          .Types[receiver].Methods =
                                Put(@, funcName, method)]
                      ELSE pd
             ELSE [pd EXCEPT !.Packages[packageName].Functions =
                       Put(@, funcName, function)]

\* Variant of AddFunction: the receiver is looked up, and not written to the
\* FunctionData.
AddFunctionNoReceiver(pd, packageName, funcInfo, ptr) ==
    IF ~funcInfo.name.ok
    THEN pd
    ELSE LET funcName == funcInfo.name.val
             function == NewFunctionData(funcName, ptr)
         IN  IF funcInfo.receiver.ok
             THEN IF funcInfo.receiver.val \in DOMAIN pd.Packages[packageName].Types
                  THEN [pd EXCEPT
                            !.Packages[packageName].Types[funcInfo.receiver.val].Methods =
                                Put(@, funcName, function)]
                  ELSE pd
             ELSE [pd EXCEPT !.Packages[packageName].Functions =
                       Put(@, funcName, function)]

\* One iteration of the loop over functions.
AddFunction(pd, packageName, funcInfo, ptr) ==
    IF ~funcInfo.name.ok
    THEN pd
    ELSE LET funcName == funcInfo.name.val
             function == NewFunctionData(funcName, ptr)
         IN  IF funcInfo.receiver.ok
             THEN LET receiver == funcInfo.receiver.val
                      method == [function EXCEPT !.Receiver = receiver]
                  IN  IF receiver \in DOMAIN pd.Packages[packageName].Types
                      THEN [pd EXCEPT !.Packages[packageName].Types[receiver].Methods =
                                Put(@, funcName, method)]
                      ELSE pd
             ELSE [pd EXCEPT !.Packages[packageName].Functions =
                       Put(@, funcName, function)]

\* Variant of AddFunctionList: an entry without a name ends the loop.
RECURSIVE AddFunctionListBreak(_, _, _, _, _)
AddFunctionListBreak(pd, packageName, list, i, call) ==
    IF i > Len(list) \/ ~list[i].name.ok
    THEN pd
    ELSE AddFunctionListBreak(AddFunction(pd, packageName, list[i], <<call, i>>),
                              packageName, list, i + 1, call)

RECURSIVE AddFunctionList(_, _, _, _, _)
AddFunctionList(pd, packageName, list, i, call) ==
    IF i > Len(list)
    THEN pd
    ELSE AddFunctionList(AddFunction(pd, packageName, list[i], <<call, i>>),
                         packageName, list, i + 1, call)

\* "Add functions"
AddFunctions(pd, packageName, functions, call) ==
    IF functions.ok THEN AddFunctionList(pd, packageName, functions.val, 1, call) ELSE pd

\* Variant of mergeFileData: the failed assertion of the package name is not
\* checked, and the merge goes on with the zero value of packageName.
mergeFileDataUnchecked(pd, fd, call) ==
    LET packageName == fd.package.val
    IN  AddFunctions(
            AddTypes(
                AddImports(CreatePackage(pd, packageName), packageName, fd.imports),
                packageName, fd.types),
            packageName, fd.functions, call)

\* Variant of mergeFileData: the functions of the file are processed before
\* its types.
mergeFileDataFunctionsFirst(pd, fd, call) ==
    IF ~fd.package.ok
    THEN pd
    ELSE LET packageName == fd.package.val
         IN  AddTypes(
                 AddFunctions(
                     AddImports(CreatePackage(pd, packageName), packageName, fd.imports),
                     packageName, fd.functions, call),
                 packageName, fd.types)

\* The whole of mergeFileData; call numbers the invocation.
mergeFileData(pd, fd, call) ==
    IF ~fd.package.ok
    THEN pd
    ELSE LET packageName == fd.package.val
         IN  AddFunctions(
                 AddTypes(
                     AddImports(CreatePackage(pd, packageName), packageName, fd.imports),
                     packageName, fd.types),
                 packageName, fd.functions, call)

(***************************************************************************)
(* History of the merged facts, kept beside the program state.             *)
(***************************************************************************)
RECURSIVE CountIn(_, _)
CountIn(x, s) ==
    IF s = << >> THEN 0 ELSE (IF Head(s) = x THEN 1 ELSE 0) + CountIn(x, Tail(s))

\* The type facts of fd that carry a name.
NamedTypes(fd) ==
    IF fd.types.ok THEN SelectSeq(fd.types.val, LAMBDA t : t.name.ok) ELSE << >>

\* The kind of the first fact of fd that declares typeName.
FirstDeclKind(fd, typeName) ==
    KindOf(Head(SelectSeq(NamedTypes(fd), LAMBDA t : t.name.val = typeName)))

DeclaredTypes(fd) == {NamedTypes(fd)[i].name.val : i \in 1..Len(NamedTypes(fd))}

RecordFirstDecl(h, fd, call) ==
    IF ~fd.package.ok
    THEN h
    ELSE LET p == fd.package.val
             new == {<<p, t>> : t \in DeclaredTypes(fd)} \ DOMAIN h
         IN  [k \in (DOMAIN h) \cup new |->
                 IF k \in DOMAIN h
                 THEN h[k]
                 ELSE [kind |-> FirstDeclKind(fd, k[2]), call |-> call]]

RecordDeclared(h, fd) == IF fd.package.ok THEN h \cup {fd.package.val} ELSE h

\* The types registered in package p of pd.
TypesOf(pd, p) == IF p \in DOMAIN pd.Packages THEN pd.Packages[p].Types ELSE EmptyMap

FunctionsOf(pd, p) ==
    IF p \in DOMAIN pd.Packages THEN pd.Packages[p].Functions ELSE EmptyMap

\* The positions of the function facts of fd that carry a name and a receiver.
MethodFacts(fd) ==
    IF fd.functions.ok
    THEN {i \in 1..Len(fd.functions.val) :
             fd.functions.val[i].name.ok /\ fd.functions.val[i].receiver.ok}
    ELSE {}

\* The positions of the function facts of fd that carry a name and no receiver.
FreeFacts(fd) ==
    IF fd.functions.ok
    THEN {i \in 1..Len(fd.functions.val) :
             fd.functions.val[i].name.ok /\ ~fd.functions.val[i].receiver.ok}
    ELSE {}

\* The method facts of fd whose receiver is declared neither by an earlier
\* file of the package nor by fd itself.
Unresolved(pd, fd) ==
    IF fd.package.ok
    THEN {i \in MethodFacts(fd) :
             fd.functions.val[i].receiver.val \notin
                 (DOMAIN TypesOf(pd, fd.package.val)) \cup DeclaredTypes(fd)}
    ELSE {}

RecordDropped(h, pd, fd, call) ==
    h \cup {[ptr |-> <<call, i>>, package |-> fd.package.val,
             receiver |-> fd.functions.val[i].receiver.val,
             name |-> fd.functions.val[i].name.val] : i \in Unresolved(pd, fd)}

RecordImports(h, fd) ==
    IF fd.package.ok /\ fd.imports.ok
    THEN [k \in PackageNames \X ImportPaths |->
             IF k[1] = fd.package.val THEN h[k] + CountIn(k[2], fd.imports.val) ELSE h[k]]
    ELSE h

\* No prompt has been built.
NoPrompt == [task |-> "", types |-> << >>, relationships |-> << >>]

\* generateClassDiagram has not been called.
NoDiagram ==
    [pc |-> "idle", todoTypes |-> {}, typeDefinitions |-> << >>,
     todo |-> {}, order |-> << >>, relations |-> << >>, i |-> 0,
     relationships |-> << >>, prompt |-> NoPrompt]

(***************************************************************************)
(* The aggregator driven directly: any sequence of at most MaxFiles        *)
(* merges of any facts.                                                    *)
(***************************************************************************)
\* No project is being merged file by file in a chosen order.
NoPerm == [files |-> << >>, todo |-> {}]

PermIdle == perm = NoPerm

\* GenerateDiagrams has not been called.
NoAi == [pc |-> "off"]

AiIdle == ai = NoAi

\* extractMermaidCode has not been called.
NoExtract == [done |-> FALSE]

ExtractIdle == extract = NoExtract

\* Neither CloneRepository nor FetchSingleFile has been called.
NoAcq == [n |-> 0]

AcqIdle == acq = NoAcq

\* The parts of the program a specification leaves alone, at rest.
IdleOther == PermIdle /\ AiIdle /\ ExtractIdle /\ AcqIdle

Init ==
    /\ projectData = NewProjectData
    /\ fileData = NoFile
    /\ nMerged = 0
    /\ firstDecl = EmptyMap
    /\ nImported = [k \in PackageNames \X ImportPaths |-> 0]
    /\ declared = {}
    /\ dropped = {}
    /\ tree = [rootErr |-> FALSE, entries |-> << >>]
    /\ pos = 0
    /\ outcome = "direct"
    /\ inMerge = {}
    /\ diagram = NoDiagram
    /\ IdleOther

\* The aggregator, the walk and the diagram at rest.
CoreIdle ==
    /\ projectData = NewProjectData
    /\ fileData = NoFile
    /\ nMerged = 0
    /\ firstDecl = EmptyMap
    /\ nImported = [k \in PackageNames \X ImportPaths |-> 0]
    /\ declared = {}
    /\ dropped = {}
    /\ tree = [rootErr |-> FALSE, entries |-> << >>]
    /\ pos = 0
    /\ outcome = "direct"
    /\ inMerge = {}
    /\ diagram = NoDiagram

Merge(fd) ==
    /\ nMerged < MaxFiles
    /\ projectData' = mergeFileData(projectData, fd, nMerged + 1)
    /\ fileData' = fd
    /\ nMerged' = nMerged + 1
    /\ firstDecl' = RecordFirstDecl(firstDecl, fd, nMerged + 1)
    /\ nImported' = RecordImports(nImported, fd)
    /\ declared' = RecordDeclared(declared, fd)
    /\ dropped' = RecordDropped(dropped, projectData, fd, nMerged + 1)
    /\ UNCHANGED <<walkVars, stepVars>>

Next == \E fd \in FileFacts : Merge(fd)

Spec == Init /\ [][Next]_vars

(***************************************************************************)
(* ParseGoProject.  A source file is described by the nodes the searches   *)
(* of extractInformation find in its syntax tree.                          *)
(***************************************************************************)
\* Bound on the number of entries under the root.
MaxEntries == 3

\* A type_declaration: the identifier found in its type_spec, the form of the
\* declared type ("struct", "interface" or "other"), and whether a struct_type
\* or an interface_type node occurs anywhere below the type_spec, the declared
\* type itself or a type nested in it (a field, a parameter, an element).
TypeDecl(name, form, hasStruct, hasInterface) ==
    [name |-> name, form |-> form, hasStruct |-> hasStruct, hasInterface |-> hasInterface]

\* packageIdent: the identifier of the package_clause, if both are found.
\* importSpecs: per import_spec, its interpreted_string_literal without quotes.
\* funcDecls: per function_declaration, its identifier child.
\* methodDecls: the method_declaration nodes (name, receiver type).
Source(packageIdent, importSpecs, typeDecls, funcDecls, methodDecls) ==
    [packageIdent |-> packageIdent, importSpecs |-> importSpecs, typeDecls |-> typeDecls,
     funcDecls |-> funcDecls, methodDecls |-> methodDecls]

\* main.go of the end-to-end scenario: package main, imports "fmt" and
\* "pkg", func main.
MainSource ==
    Source(SomeV("main"), <<SomeV("fmt"), SomeV("pkg")>>, << >>, <<SomeV("main")>>, << >>)

\* pkg/service.go of the scenario: package pkg, type Service struct, func
\* NewService, and method Name of Service.
ServiceSource ==
    Source(SomeV("pkg"), << >>, <<TypeDecl(SomeV("Service"), "struct", TRUE, FALSE)>>,
           <<SomeV("NewService")>>, <<<<"Name", "Service">>>>)

Sources ==
    { Source(SomeV("p"), <<SomeV("x"), SomeV("y")>>,
             <<TypeDecl(SomeV("T"), "struct", TRUE, FALSE)>>, <<SomeV("m")>>, <<<<"m", "T">>>>),
      Source(SomeV("q"), <<SomeV("x")>>, <<TypeDecl(SomeV("T"), "other", FALSE, FALSE)>>,
             <<SomeV("T")>>, << >>),
      Source(SomeV("p"), <<NoString, SomeV("x")>>,
             <<TypeDecl(NoString, "other", FALSE, FALSE),
               TypeDecl(SomeV("T"), "struct", TRUE, TRUE)>>,
             <<NoString>>, << >>),
      Source(NoString, <<SomeV("x")>>,
             <<TypeDecl(SomeV("T"), "interface", FALSE, TRUE)>>, <<SomeV("m")>>, << >>),
      MainSource,
      ServiceSource }

NoSource == Source(NoString, << >>, << >>, << >>, << >>)

\* An entry the walk visits: err is the error filepath.Walk hands to the
\* callback, readable whether parseGoFile can read and parse the file.
Entry(isDir, ext, err, readable, src) ==
    [isDir |-> isDir, ext |-> ext, err |-> err, readable |-> readable, src |-> src]

Entries ==
    { Entry(TRUE, "", FALSE, FALSE, NoSource),
      Entry(TRUE, "", TRUE, FALSE, NoSource),
      Entry(TRUE, ".go", FALSE, FALSE, NoSource),
      Entry(FALSE, ".txt", FALSE, TRUE, NoSource),
      Entry(FALSE, ".go", FALSE, FALSE, NoSource) }
    \cup {Entry(FALSE, ".go", FALSE, TRUE, s) : s \in Sources}

RECURSIVE SeqsUpTo(_, _)
SeqsUpTo(S, n) ==
    IF n = 0
    THEN {<< >>}
    ELSE LET shorter == SeqsUpTo(S, n - 1)
         IN  shorter \cup {Append(t, x) : t \in shorter, x \in S}

\* rootErr: os.Lstat of the root fails.
Trees == [rootErr : BOOLEAN, entries : SeqsUpTo(Entries, MaxEntries)]

\* The values of a sequence of checked results that are present.
RECURSIVE Present(_)
Present(s) ==
    IF s = << >>
    THEN << >>
    ELSE (IF Head(s).ok THEN <<Head(s).val>> ELSE << >>) \o Present(Tail(s))

\* The typeInfo of one type declaration: "kind" is set to "struct" when a
\* struct_type node is found, then to "interface" when an interface_type is.
ExtractType(decl) ==
    TypeInfo(decl.name,
             IF decl.hasInterface THEN SomeV("interface")
             ELSE IF decl.hasStruct THEN SomeV("struct")
             ELSE NoString)

RECURSIVE ExtractTypes(_)
ExtractTypes(decls) ==
    IF decls = << >>
    THEN << >>
    ELSE (IF Head(decls).name.ok THEN <<ExtractType(Head(decls))>> ELSE << >>)
         \o ExtractTypes(Tail(decls))

\* The functionInfo maps: only "name" is ever set.
RECURSIVE ExtractFunctions(_)
ExtractFunctions(decls) ==
    IF decls = << >>
    THEN << >>
    ELSE (IF Head(decls).ok THEN <<FuncInfo(Head(decls), NoString)>> ELSE << >>)
         \o ExtractFunctions(Tail(decls))

\* Variant of extractInformation: method declarations are extracted too, each
\* with its receiver.
extractInformationWithMethods(src) ==
    [package |-> src.packageIdent,
     imports |-> SomeV(Present(src.importSpecs)),
     types |-> SomeV(ExtractTypes(src.typeDecls)),
     functions |-> SomeV(ExtractFunctions(src.funcDecls)
                         \o [k \in 1..Len(src.methodDecls) |->
                                FuncInfo(SomeV(src.methodDecls[k][1]),
                                         SomeV(src.methodDecls[k][2]))])]

extractInformation(src) ==
    [package |-> src.packageIdent,
     imports |-> SomeV(Present(src.importSpecs)),
     types |-> SomeV(ExtractTypes(src.typeDecls)),
     functions |-> SomeV(ExtractFunctions(src.funcDecls))]

\* (fileData, err) of parseGoFile: ok is FALSE for a non-nil error.
parseGoFile(e) ==
    IF e.readable THEN SomeV(extractInformation(e.src)) ELSE [ok |-> FALSE, val |-> NoFile]

\* ParseGoProject returns (*ProjectData, error) and neither it nor
\* mergeFileData keeps a list of diagnostics: the diagnostics of a run are empty.
Diagnostics == << >>

\* The entry of the root directory itself, the first the walk visits.
RootEntry(t) == Entry(TRUE, "", t.rootErr, FALSE, NoSource)

\* Variant of Skipped: only directories are passed over.
SkippedOnlyDirs(e) == e.isDir

\* "Skip directories and non-Go files"
Skipped(e) == e.isDir \/ e.ext # ".go"

\* Variant of CallbackError: the error filepath.Walk hands over is ignored.
CallbackErrorOnlyParse(e, parsed) == ~e.isDir /\ e.ext = ".go" /\ ~parsed.ok

\* The callback returns a non-nil error: the one it was handed, or the one
\* of parseGoFile for a .go file.
CallbackError(e, parsed) == e.err \/ (~Skipped(e) /\ ~parsed.ok)

\* What ParseGoProject returns once the walk is over: (nil, error) when
\* filepath.Walk returned an error, (projectData, nil) otherwise.
ReturnedModel ==
    IF outcome = "ok" THEN SomeV(projectData) ELSE [ok |-> FALSE, val |-> NewProjectData]

ReturnedError == outcome = "error"

WalkInit ==
    /\ projectData = NewProjectData
    /\ fileData = NoFile
    /\ nMerged = 0
    /\ firstDecl = EmptyMap
    /\ nImported = [k \in PackageNames \X ImportPaths |-> 0]
    /\ declared = {}
    /\ dropped = {}
    /\ tree \in Trees
    /\ pos = 0
    /\ outcome = "walking"
    /\ inMerge = {}
    /\ diagram = NoDiagram
    /\ IdleOther

\* One call of the callback ParseGoProject gives to filepath.Walk.
WalkFn ==
    /\ outcome = "walking"
    /\ pos <= Len(tree.entries)
    /\ LET e == IF pos = 0 THEN RootEntry(tree) ELSE tree.entries[pos]
           parsed == parseGoFile(e)
       IN  IF CallbackError(e, parsed)
           THEN /\ outcome' = "error"
                /\ UNCHANGED <<projectData, fileData, nMerged, tree, pos, histVars, stepVars>>
           ELSE IF Skipped(e)
           THEN /\ pos' = pos + 1
                /\ UNCHANGED <<projectData, fileData, nMerged, tree, outcome, histVars, stepVars>>
           ELSE /\ projectData' = mergeFileData(projectData, parsed.val, nMerged + 1)
                /\ fileData' = parsed.val
                /\ nMerged' = nMerged + 1
                /\ firstDecl' = RecordFirstDecl(firstDecl, parsed.val, nMerged + 1)
                /\ nImported' = RecordImports(nImported, parsed.val)
                /\ declared' = RecordDeclared(declared, parsed.val)
                /\ dropped' = RecordDropped(dropped, projectData, parsed.val, nMerged + 1)
                /\ pos' = pos + 1
                /\ UNCHANGED <<tree, outcome, stepVars>>

\* filepath.Walk returns nil: ParseGoProject returns (projectData, nil).
WalkReturn ==
    /\ outcome = "walking"
    /\ pos > Len(tree.entries)
    /\ outcome' = "ok"
    /\ UNCHANGED <<projectData, fileData, nMerged, tree, pos, histVars, stepVars>>

WalkNext == WalkFn \/ WalkReturn

WalkSpec == WalkInit /\ [][WalkNext]_vars

(***************************************************************************)
(* The aggregator driven with facts no extraction of this program builds:  *)
(* fields that are missing or of another type, entries without a name.     *)
(***************************************************************************)
NamelessType == TypeInfo(NoString, SomeV("struct"))

RobustTypeLists ==
    { NoList,
      SomeV(<<NamelessType, TypeInfo(SomeV("T"), SomeV("struct"))>>),
      SomeV(<<TypeInfo(SomeV("T"), SomeV("interface"))>>) }

RobustFuncLists ==
    { NoList,
      SomeV(<<FuncInfo(NoString, NoString), FuncInfo(SomeV("m"), NoString)>>),
      SomeV(<<FuncInfo(NoString, SomeV("T")), FuncInfo(SomeV("m"), SomeV("T"))>>),
      SomeV(<<FuncInfo(SomeV("m"), NoString)>>) }

RobustFacts ==
    [ package : {NoString, SomeV("p")},
      imports : {NoList, SomeV(<<"x">>)},
      types : RobustTypeLists,
      functions : RobustFuncLists ]

RobustNext == \E fd \in RobustFacts : Merge(fd)

RobustSpec == Init /\ [][RobustNext]_vars

(***************************************************************************)
(* ParseGoProject with mergeFileData taken block by block: the walk and    *)
(* the merges it calls, one step at a time.                                *)
(***************************************************************************)
\* Variant of CallbackReturned: the callback hands the merge to a goroutine
\* and the walk goes on without waiting for it.
CallbackNeverWaits == TRUE

\* filepath.Walk calls the callback for the next entry once the previous
\* call returned, and the callback calls mergeFileData itself (no go
\* statement): every merge it started has returned by then.
CallbackReturned == inMerge = {}

\* A call of mergeFileData: its arguments, its position, and the
\* ProjectData it found on entry.
Activation(fd, call, pc, before) == [fd |-> fd, call |-> call, pc |-> pc, before |-> before]

SerialVisit ==
    /\ outcome = "walking"
    /\ pos <= Len(tree.entries)
    /\ CallbackReturned
    /\ LET e == IF pos = 0 THEN RootEntry(tree) ELSE tree.entries[pos]
           parsed == parseGoFile(e)
       IN  IF CallbackError(e, parsed)
           THEN /\ outcome' = "error"
                /\ UNCHANGED <<projectData, fileData, nMerged, tree, pos, histVars, stepVars>>
           ELSE IF Skipped(e)
           THEN /\ pos' = pos + 1
                /\ UNCHANGED <<projectData, fileData, nMerged, tree, outcome, histVars, stepVars>>
           ELSE /\ inMerge' = inMerge \cup
                                 {Activation(parsed.val, nMerged + 1, "package", projectData)}
                /\ fileData' = parsed.val
                /\ nMerged' = nMerged + 1
                /\ pos' = pos + 1
                /\ UNCHANGED <<projectData, tree, outcome, histVars, diagram, otherVars>>

\* "Create package if it doesn't exist", or the early return.
MergePackage(a) ==
    /\ a.pc = "package"
    /\ IF a.fd.package.ok
       THEN /\ projectData' = CreatePackage(projectData, a.fd.package.val)
            /\ inMerge' = (inMerge \ {a}) \cup {[a EXCEPT !.pc = "imports"]}
       ELSE /\ inMerge' = inMerge \ {a}
            /\ UNCHANGED projectData
    /\ UNCHANGED <<fileData, nMerged, walkVars, histVars, diagram, otherVars>>

MergeImports(a) ==
    /\ a.pc = "imports"
    /\ projectData' = AddImports(projectData, a.fd.package.val, a.fd.imports)
    /\ inMerge' = (inMerge \ {a}) \cup {[a EXCEPT !.pc = "types"]}
    /\ UNCHANGED <<fileData, nMerged, walkVars, histVars, diagram, otherVars>>

MergeTypes(a) ==
    /\ a.pc = "types"
    /\ projectData' = AddTypes(projectData, a.fd.package.val, a.fd.types)
    /\ inMerge' = (inMerge \ {a}) \cup {[a EXCEPT !.pc = "functions"]}
    /\ UNCHANGED <<fileData, nMerged, walkVars, histVars, diagram, otherVars>>

\* "Add functions", and the return.
MergeFunctions(a) ==
    /\ a.pc = "functions"
    /\ projectData' = AddFunctions(projectData, a.fd.package.val, a.fd.functions, a.call)
    /\ inMerge' = inMerge \ {a}
    /\ UNCHANGED <<fileData, nMerged, walkVars, histVars, diagram, otherVars>>

SerialReturn ==
    /\ outcome = "walking"
    /\ pos > Len(tree.entries)
    /\ CallbackReturned
    /\ outcome' = "ok"
    /\ UNCHANGED <<projectData, fileData, nMerged, tree, pos, histVars, stepVars>>

SerialNext ==
    \/ SerialVisit
    \/ SerialReturn
    \/ \E a \in inMerge :
          MergePackage(a) \/ MergeImports(a) \/ MergeTypes(a) \/ MergeFunctions(a)

SerialSpec == WalkInit /\ [][SerialNext]_vars

(***************************************************************************)
(* generateClassDiagram: the loop over the types, then the loop over the   *)
(* relation groups, up to the prompt handed to callAI.                     *)
(***************************************************************************)
\* Bound on the length of a relation group.
MaxRelLen == 3

RelationKeys == {"g", "h"}

RelationNames == {"A", "B"}

\* The Relations maps given to generateClassDiagram.
RelationMaps ==
    UNION {[ks -> SeqsUpTo(RelationNames, MaxRelLen)] : ks \in SUBSET RelationKeys}

\* A model with one type and one method, as two merges build it.
SmallProject ==
    mergeFileData(
        mergeFileData(NewProjectData,
                      [package |-> SomeV("p"), imports |-> SomeV(<<"x">>),
                       types |-> SomeV(<<TypeInfo(SomeV("T"), SomeV("struct"))>>),
                       functions |-> SomeV(<< >>)], 1),
        [package |-> SomeV("p"), imports |-> SomeV(<< >>), types |-> SomeV(<< >>),
         functions |-> SomeV(<<FuncInfo(SomeV("m"), SomeV("T"))>>)], 2)

DiagramInputs ==
    {[pd EXCEPT !.Relations = r] : pd \in {NewProjectData, SmallProject}, r \in RelationMaps}

\* The <<package, type>> pairs of pd.
TypeKeys(pd) ==
    UNION {{<<p, t>> : t \in DOMAIN pd.Packages[p].Types} : p \in DOMAIN pd.Packages}

\* The orders in which a range over a map may yield the keys S.
Orderings(S) ==
    {f \in [1..Cardinality(S) -> S] : \A i, j \in 1..Cardinality(S) : f[i] = f[j] => i = j}

DiagramInit ==
    /\ projectData \in DiagramInputs
    /\ fileData = NoFile
    /\ nMerged = 0
    /\ firstDecl = EmptyMap
    /\ nImported = [k \in PackageNames \X ImportPaths |-> 0]
    /\ declared = {}
    /\ dropped = {}
    /\ tree = [rootErr |-> FALSE, entries |-> << >>]
    /\ pos = 0
    /\ outcome = "direct"
    /\ inMerge = {}
    /\ diagram = [pc |-> "types", todoTypes |-> TypeKeys(projectData), typeDefinitions |-> << >>,
                  todo |-> {}, order |-> << >>, relations |-> << >>, i |-> 0,
                  relationships |-> << >>, prompt |-> NoPrompt]
    /\ IdleOther

diagramFrame ==
    <<projectData, fileData, nMerged, walkVars, histVars, inMerge, otherVars>>

\* One iteration of the loops over Packages and Types.
TypeDefinition ==
    /\ diagram.pc = "types"
    /\ \E k \in diagram.todoTypes :
         LET typeData == projectData.Packages[k[1]].Types[k[2]]
         IN  \E methods \in Orderings(DOMAIN typeData.Methods) :
               diagram' = [diagram EXCEPT
                   !.todoTypes = @ \ {k},
                   !.typeDefinitions =
                       Append(@, [package |-> k[1], name |-> k[2], kind |-> typeData.Kind,
                                  fields |-> typeData.Fields, methods |-> methods])]
    /\ UNCHANGED diagramFrame

\* The loops over the types are done: "Build relationships".
TypesDone ==
    /\ diagram.pc = "types"
    /\ diagram.todoTypes = {}
    /\ diagram' = [diagram EXCEPT !.pc = "range", !.todo = DOMAIN projectData.Relations]
    /\ UNCHANGED diagramFrame

\* for _, relations := range projectData.Relations
RangeNext ==
    /\ diagram.pc = "range"
    /\ \E k \in diagram.todo :
         diagram' = [diagram EXCEPT !.pc = "loop", !.todo = @ \ {k}, !.order = Append(@, k),
                                    !.relations = projectData.Relations[k], !.i = 0]
    /\ UNCHANGED diagramFrame

\* Variant of NextIndex: the loop moves on by one element.
NextIndexByOne(i) == i + 1

\* i += 2
NextIndex(i) == i + 2

\* One iteration of: for i := 0; i < len(relations); i += 2
LoopStep ==
    /\ diagram.pc = "loop"
    /\ diagram.i < Len(diagram.relations)
    /\ diagram' = [diagram EXCEPT
           !.relationships =
               IF diagram.i + 1 < Len(diagram.relations)
               THEN Append(@, [from |-> diagram.relations[diagram.i + 1],
                               to |-> diagram.relations[diagram.i + 2],
                               type |-> "->"])
               ELSE @,
           !.i = NextIndex(@)]
    /\ UNCHANGED diagramFrame

LoopExit ==
    /\ diagram.pc = "loop"
    /\ diagram.i >= Len(diagram.relations)
    /\ diagram' = [diagram EXCEPT !.pc = "range"]
    /\ UNCHANGED diagramFrame

\* "Create AI prompt"
CreatePrompt ==
    /\ diagram.pc = "range"
    /\ diagram.todo = {}
    /\ diagram' = [diagram EXCEPT
           !.pc = "done",
           !.prompt = [task |-> "Generate a Mermaid class diagram",
                       types |-> diagram.typeDefinitions,
                       relationships |-> diagram.relationships]]
    /\ UNCHANGED diagramFrame

DiagramNext ==
    TypeDefinition \/ TypesDone \/ RangeNext \/ LoopStep \/ LoopExit \/ CreatePrompt

DiagramSpec == DiagramInit /\ [][DiagramNext]_vars

(***************************************************************************)
(* The aggregator driven with the files of one project in every order.     *)
(***************************************************************************)
\* Bound on the number of files of the project.
MaxOrderFiles == 3

OrderFacts ==
    { [package |-> SomeV("p"), imports |-> SomeV(<<"x">>),
       types |-> SomeV(<<TypeInfo(SomeV("T"), SomeV("struct"))>>),
       functions |-> SomeV(<< >>)],
      [package |-> SomeV("p"), imports |-> SomeV(<<"y", "x">>),
       types |-> SomeV(<<TypeInfo(SomeV("T"), SomeV("interface"))>>),
       functions |-> SomeV(<<FuncInfo(SomeV("m"), NoString)>>)],
      [package |-> SomeV("p"), imports |-> SomeV(<< >>), types |-> SomeV(<< >>),
       functions |-> SomeV(<<FuncInfo(SomeV("m"), SomeV("T")), FuncInfo(SomeV("T"), NoString)>>)],
      [package |-> SomeV("q"), imports |-> SomeV(<<"x">>),
       types |-> SomeV(<<TypeInfo(SomeV("T"), SomeV("struct"))>>),
       functions |-> SomeV(<< >>)],
      [package |-> SomeV("q"), imports |-> NoList, types |-> SomeV(<< >>),
       functions |-> SomeV(<<FuncInfo(SomeV("m"), NoString)>>)],
      [package |-> NoString, imports |-> SomeV(<<"x">>),
       types |-> SomeV(<<TypeInfo(SomeV("T"), SomeV("struct"))>>),
       functions |-> SomeV(<<FuncInfo(SomeV("m"), NoString)>>)] }

\* The files of a project, listed, and all of them still to be merged.
OrderInit ==
    /\ CoreIdle
    /\ AiIdle
    /\ ExtractIdle
    /\ AcqIdle
    /\ \E files \in SeqsUpTo(OrderFacts, MaxOrderFiles) :
         perm = [files |-> files, todo |-> 1..Len(files)]

\* mergeFileData for any file not merged yet.
OrderMerge(i) ==
    /\ i \in perm.todo
    /\ perm' = [perm EXCEPT !.todo = @ \ {i}]
    /\ projectData' = mergeFileData(projectData, perm.files[i], nMerged + 1)
    /\ fileData' = perm.files[i]
    /\ nMerged' = nMerged + 1
    /\ firstDecl' = RecordFirstDecl(firstDecl, perm.files[i], nMerged + 1)
    /\ nImported' = RecordImports(nImported, perm.files[i])
    /\ declared' = RecordDeclared(declared, perm.files[i])
    /\ dropped' = RecordDropped(dropped, projectData, perm.files[i], nMerged + 1)
    /\ UNCHANGED <<walkVars, inMerge, diagram, ai, extract, acq>>

OrderNext == \E i \in perm.todo : OrderMerge(i)

OrderSpec == OrderInit /\ [][OrderNext]_vars

(***************************************************************************)
(* GenerateDiagrams and callAI: three invocations in a row, each with its  *)
(* retry loop, on a clock counted in seconds.                              *)
(***************************************************************************)
minTimeBetweenCalls == 3

maxRetries == 3

\* generateClassDiagram, generatePackageDiagram, generateSequenceDiagram, in
\* the order GenerateDiagrams calls them.
DiagramTypes == <<"class", "package", "sequence">>

DiagramKey(diagramType) ==
    CASE diagramType = "class" -> "class-diagram"
      [] diagramType = "package" -> "package-diagram"
      [] diagramType = "sequence" -> "sequence-diagram"

\* What one API request comes to: client.Do fails, io.ReadAll fails, the
\* status is 429, the status is another one that is not 200, or the status
\* is 200.
Outcomes == {"request error", "read error", "status 429", "status 500", "status 200"}

\* What a body read with status 200 holds: no JSON, JSON without a text
\* part, a text that extractMermaidCode turns into "", or a text with code.
Bodies == {"unparsable", "no text", "no code", "code"}

\* The seconds a request takes, less than minTimeBetweenCalls: the request
\* after a failed one has to wait, unless the failure was a 429.
Durations == {1}

\* The seconds that pass between two invocations: GenerateDiagrams makes
\* them one right after the other.
Gaps == {0}

\* The clock when the process starts; the zero time.Time is far before it.
StartTimes == {10}

ZeroTime == 0

NoRequest ==
    [start |-> ZeroTime, end |-> ZeroTime, waited |-> 0, outcome |-> "none", retry |-> 0,
     stage |-> 0, after |-> "none"]

createFallbackDiagram(diagramType) ==
    [kind |-> "fallback",
     code |-> IF diagramType \in {"class", "package", "sequence"} THEN diagramType ELSE "default",
     title |-> diagramType]

\* Variant of callAIResult: when every retry failed the error is returned.
callAIResultWithError(keySet, apiError, body, diagramType) ==
    IF keySet /\ apiError
    THEN [text |-> [kind |-> "none", code |-> "", title |-> ""], err |-> TRUE]
    ELSE IF ~keySet \/ body # "code"
    THEN [text |-> createFallbackDiagram(diagramType), err |-> FALSE]
    ELSE [text |-> [kind |-> "markdown", code |-> "extracted", title |-> diagramType],
          err |-> FALSE]

\* The (string, error) callAI returns, after the loop or without it.
callAIResult(keySet, apiError, body, diagramType) ==
    IF ~keySet \/ apiError \/ body # "code"
    THEN [text |-> createFallbackDiagram(diagramType), err |-> FALSE]
    ELSE [text |-> [kind |-> "markdown", code |-> "extracted", title |-> diagramType],
          err |-> FALSE]

\* Variant of LoopContinues: one attempt more.
LoopContinuesOnceMore(retry) == retry <= maxRetries

\* retry < maxRetries
LoopContinues(retry) == retry < maxRetries

\* Variant of RateLimitWait: no wait.
RateLimitNoWait(now, last) == 0

\* The time slept before a request: what is missing to minTimeBetweenCalls
\* since lastAPICall.
RateLimitWait(now, last) ==
    IF now - last < minTimeBetweenCalls THEN minTimeBetweenCalls - (now - last) ELSE 0

\* time.Duration(4<<retry) * time.Second
Backoff(retry) == 4 * 2^retry

AiInit ==
    /\ CoreIdle
    /\ PermIdle
    /\ ExtractIdle
    /\ AcqIdle
    /\ \E key \in BOOLEAN, t \in StartTimes :
         ai = [apiKey |-> key, stage |-> 0, pc |-> "idle", failed |-> FALSE,
               diagrams |-> EmptyMap, retry |-> 0, requests |-> 0, okAt |-> 0,
               apiError |-> FALSE, body |-> "none", now |-> t,
               lastAPICall |-> ZeroTime, prev |-> NoRequest]

aiFrame ==
    <<projectData, fileData, nMerged, walkVars, histVars, inMerge, diagram, perm,
      extract, acq>>

\* What GenerateDiagrams does with the (string, error) of one generator.
Collect(a, result) ==
    IF result.err
    THEN [a EXCEPT !.pc = "returned", !.failed = TRUE, !.diagrams = EmptyMap]
    ELSE [a EXCEPT !.pc = IF a.stage + 1 = Len(DiagramTypes) THEN "returned" ELSE "idle",
                   !.stage = @ + 1,
                   !.diagrams = Put(@, DiagramKey(DiagramTypes[a.stage + 1]), result.text)]

\* GenerateDiagrams calls the next generator, which calls callAI: without
\* API key callAI returns at once, with one it enters the retry loop.
CallAI ==
    /\ ai.pc = "idle"
    /\ \E gap \in Gaps :
         LET a == [ai EXCEPT !.now = @ + gap, !.retry = 0, !.requests = 0, !.okAt = 0,
                             !.apiError = FALSE, !.body = "none"]
         IN  IF ~ai.apiKey
             THEN ai' = Collect(a, callAIResult(FALSE, FALSE, "none",
                                                DiagramTypes[ai.stage + 1]))
             ELSE ai' = [a EXCEPT !.pc = "loop"]
    /\ UNCHANGED aiFrame

\* One iteration of the retry loop.
Attempt ==
    /\ ai.pc = "loop"
    /\ LoopContinues(ai.retry)
    /\ \E answer \in Outcomes, d \in Durations :
       \E body \in IF answer = "status 200" THEN Bodies ELSE {"none"} :
         LET waitTime == RateLimitWait(ai.now, ai.lastAPICall)
             start == ai.now + waitTime
             answered == start + d
             request == [start |-> start, end |-> answered, waited |-> waitTime,
                         outcome |-> answer, retry |-> ai.retry, stage |-> ai.stage,
                         after |-> ai.prev.outcome]
         IN  ai' = IF answer = "status 200"
                   THEN [ai EXCEPT !.pc = "after", !.lastAPICall = start, !.prev = request,
                                   !.requests = @ + 1, !.okAt = ai.requests + 1,
                                   !.apiError = FALSE, !.body = body, !.now = answered]
                   ELSE [ai EXCEPT !.lastAPICall = start, !.prev = request,
                                   !.requests = @ + 1, !.apiError = TRUE,
                                   !.retry = @ + 1,
                                   !.now = IF answer = "status 429"
                                           THEN answered + Backoff(ai.retry)
                                           ELSE answered]
    /\ UNCHANGED aiFrame

\* The loop is over: callAI returns and GenerateDiagrams stores the diagram.
Return ==
    /\ \/ ai.pc = "after"
       \/ ai.pc = "loop" /\ ~LoopContinues(ai.retry)
    /\ ai' = Collect(ai, callAIResult(TRUE, ai.apiError, ai.body, DiagramTypes[ai.stage + 1]))
    /\ UNCHANGED aiFrame

AiNext == CallAI \/ Attempt \/ Return

AiSpec == AiInit /\ [][AiNext]_vars /\ WF_vars(AiNext)

(***************************************************************************)
(* extractMermaidCode, on contents made of a few kinds of pieces.          *)
(***************************************************************************)
\* Bound on the number of pieces of a content.
MaxContentLen == 4

\* The pieces of a content: a fence of three backquotes, the word mermaid,
\* a newline, a space, any other text.
Pieces == {"fence", "mermaid", "newline", "space", "text"}

Contents == SeqsUpTo(Pieces, MaxContentLen)

\* strings.Index for a fence followed by the word mermaid, 0 for -1.
IndexTagged(s) ==
    LET found == {i \in 1..(Len(s) - 1) : s[i] = "fence" /\ s[i + 1] = "mermaid"}
    IN  IF found = {} THEN 0 ELSE CHOOSE i \in found : \A j \in found : i <= j

\* strings.Index for a fence, 0 for -1.
IndexFence(s) ==
    LET found == {i \in 1..Len(s) : s[i] = "fence"}
    IN  IF found = {} THEN 0 ELSE CHOOSE i \in found : \A j \in found : i <= j

RECURSIVE TrimLeft(_)
TrimLeft(s) ==
    IF s # << >> /\ Head(s) \in {"newline", "space"} THEN TrimLeft(Tail(s)) ELSE s

RECURSIVE TrimRight(_)
TrimRight(s) ==
    IF s # << >> /\ s[Len(s)] \in {"newline", "space"}
    THEN TrimRight(SubSeq(s, 1, Len(s) - 1))
    ELSE s

\* strings.TrimSpace
TrimSpace(s) == TrimRight(TrimLeft(s))

extractMermaidCode(content) ==
    LET mermaidStart == IF IndexTagged(content) # 0
                        THEN IndexTagged(content)
                        ELSE IndexFence(content)
    IN  IF mermaidStart = 0
        THEN content
        ELSE LET contentAfterStart == SubSeq(content, mermaidStart + 1, Len(content))
                 mermaidEnd == IndexFence(contentAfterStart)
             IN  IF mermaidEnd = 0
                 THEN contentAfterStart
                 ELSE IF mermaidStart + mermaidEnd <= Len(content)
                 THEN LET afterFence == mermaidStart + 1
                          afterTag == IF contentAfterStart[1] = "mermaid"
                                      THEN afterFence + 1
                                      ELSE afterFence
                          codeStart == IF afterTag <= Len(content)
                                          /\ content[afterTag] = "newline"
                                       THEN afterTag + 1
                                       ELSE afterTag
                      IN  TrimSpace(SubSeq(content, codeStart, mermaidStart + mermaidEnd - 1))
                 ELSE << >>

ExtractInit ==
    /\ CoreIdle
    /\ PermIdle
    /\ AiIdle
    /\ AcqIdle
    /\ \E content \in Contents :
         extract = [content |-> content, done |-> FALSE, mermaidCode |-> << >>]

\* callAI hands the text of the answer to extractMermaidCode.
ExtractCode ==
    /\ ~extract.done
    /\ extract' = [extract EXCEPT !.done = TRUE,
                                  !.mermaidCode = extractMermaidCode(extract.content)]
    /\ UNCHANGED <<projectData, fileData, nMerged, walkVars, histVars, inMerge, diagram,
                   perm, ai, acq>>

ExtractNext == ExtractCode

ExtractSpec == ExtractInit /\ [][ExtractNext]_vars

(***************************************************************************)
(* CloneRepository and FetchSingleFile: the temporary directory.           *)
(***************************************************************************)
\* Bound on the number of calls of CloneRepository and FetchSingleFile.
MaxCalls == 3

\* The argument: whether it starts with "@", how it starts after that,
\* whether the regular expression of FetchSingleFile matches it, and the
\* last element of the path the expression captures.
Urls ==
    [at : BOOLEAN,
     scheme : {"https://", "git@", "http://", ""},
     blob : BOOLEAN,
     base : {"cobra.go", ".."}]

\* What the system answers to one call: os.MkdirTemp, git clone, http.Get
\* ("error" or the status code), os.Create and io.Copy.
Systems ==
    [mkdir : BOOLEAN, clone : BOOLEAN, get : {"error", "404", "200"},
     create : BOOLEAN, copy : BOOLEAN]

NoPath == << >>

NoCall == [fn |-> "none"]

\* A path is the sequence of its elements, each a name and, for the name
\* os.MkdirTemp makes from a pattern, the number that completes it.
Name(name) == <<name, 0>>

\* os.TempDir()
TempDir == <<Name("tmp")>>

\* os.MkdirTemp: a directory of a name not used before, under the
\* directory for temporary files.
MkdirTemp(pattern, n) == Append(TempDir, <<pattern, n>>)

\* filepath.Join(tempDir, filename) with filename = filepath.Base(path)
Join(tempDir, filename) ==
    IF filename = ".."
    THEN SubSeq(tempDir, 1, Len(tempDir) - 1)
    ELSE Append(tempDir, Name(filename))

\* os.Create fails when the system says so, and on a path that is a
\* directory: the directory for temporary files or one made in it.
CreateFails(filePath, sys) == ~sys.create \/ Len(filePath) <= 2

\* Variant of RemoveAll: the directory stays.
RemoveAllKeeps(fs, dir) == fs

\* os.RemoveAll(tempDir): the directory and everything under it.
RemoveAll(fs, dir) ==
    {p \in fs : ~(Len(p) >= Len(dir) /\ SubSeq(p, 1, Len(dir)) = dir)}

\* The repoURL handed to git clone.
CloneURL(repoURL) ==
    IF repoURL.scheme = "https://" \/ repoURL.scheme = "git@"
    THEN repoURL
    ELSE [repoURL EXCEPT !.scheme = "https://"]

\* One return of either function: what it returns, the temporary directory
\* it made, and the file system it leaves.
Returned(fn, arg, tempDir, path, err, fs) ==
    [fn |-> fn, arg |-> arg, tempDir |-> tempDir, path |-> path, err |-> err, fs |-> fs]

FetchSingleFile(fs, n, fileURL, sys) ==
    LET tempDir == MkdirTemp("mermgen-file-", n)
        made == fs \cup {tempDir}
        filePath == Join(tempDir, fileURL.base)
    IN  IF ~sys.mkdir
        THEN Returned("FetchSingleFile", fileURL, NoPath, NoPath, "failed to create temporary directory", fs)
        ELSE IF ~fileURL.blob
        THEN Returned("FetchSingleFile", fileURL, tempDir, NoPath, "invalid GitHub file URL format", RemoveAll(made, tempDir))
        ELSE IF sys.get = "error"
        THEN Returned("FetchSingleFile", fileURL, tempDir, NoPath, "failed to download file", RemoveAll(made, tempDir))
        ELSE IF sys.get # "200"
        THEN Returned("FetchSingleFile", fileURL, tempDir, NoPath, "failed to download file, status code", RemoveAll(made, tempDir))
        ELSE IF CreateFails(filePath, sys)
        THEN Returned("FetchSingleFile", fileURL, tempDir, NoPath, "failed to create file", RemoveAll(made, tempDir))
        ELSE IF ~sys.copy
        THEN Returned("FetchSingleFile", fileURL, tempDir, NoPath, "failed to write file", RemoveAll(made \cup {filePath}, tempDir))
        ELSE Returned("FetchSingleFile", fileURL, tempDir, filePath, "nil", made \cup {filePath})

CloneRepository(fs, n, repoURL, sys) ==
    LET tempDir == MkdirTemp("mermgen-", n)
        made == fs \cup {tempDir}
    IN  IF repoURL.at
        THEN FetchSingleFile(fs, n, [repoURL EXCEPT !.at = FALSE], sys)
        ELSE IF ~sys.mkdir
        THEN Returned("CloneRepository", repoURL, NoPath, NoPath, "failed to create temporary directory", fs)
        ELSE IF ~sys.clone
        THEN Returned("CloneRepository", CloneURL(repoURL), tempDir, NoPath, "git clone failed", RemoveAll(made, tempDir))
        ELSE Returned("CloneRepository", CloneURL(repoURL), tempDir, tempDir, "nil",
                      made \cup {Append(tempDir, Name(".git"))})

AcqInit ==
    /\ CoreIdle
    /\ PermIdle
    /\ AiIdle
    /\ ExtractIdle
    /\ acq = [n |-> 0, fs |-> {}, call |-> NoCall]

acqFrame ==
    <<projectData, fileData, nMerged, walkVars, histVars, inMerge, diagram, perm, ai, extract>>

Acquired(r) ==
    acq' = [n |-> acq.n + 1, fs |-> r.fs, call |-> [k \in DOMAIN r \ {"fs"} |-> r[k]]]

CallCloneRepository ==
    /\ acq.n < MaxCalls
    /\ \E repoURL \in Urls, sys \in Systems :
         Acquired(CloneRepository(acq.fs, acq.n + 1, repoURL, sys))
    /\ UNCHANGED acqFrame

CallFetchSingleFile ==
    /\ acq.n < MaxCalls
    /\ \E fileURL \in {u \in Urls : ~u.at}, sys \in Systems :
         Acquired(FetchSingleFile(acq.fs, acq.n + 1, fileURL, sys))
    /\ UNCHANGED acqFrame

AcqNext == CallCloneRepository \/ CallFetchSingleFile

AcqSpec == AcqInit /\ [][AcqNext]_vars

(***************************************************************************)
(* Properties.                                                             *)
(***************************************************************************)
\* A step that is one call of mergeFileData.
MergeStep == nMerged' = nMerged + 1

IsPrefix(s, t) == Len(s) <= Len(t) /\ SubSeq(t, 1, Len(s)) = s

\* C1: a type declared by several merged files of a package has exactly one
\* entry in the package's Types, and its Kind is that of the first
\* declaration merged; the kinds of later declarations are not stored.
C1_FirstTypeWins ==
    \A p \in PackageNames :
        /\ DOMAIN TypesOf(projectData, p) = {t \in TypeNames : <<p, t>> \in DOMAIN firstDecl}
        /\ \A t \in DOMAIN TypesOf(projectData, p) :
               /\ TypesOf(projectData, p)[t].Name = t
               /\ TypesOf(projectData, p)[t].Kind = firstDecl[<<p, t>>].kind

\* Two files of package p declared T, first as a struct and then as an
\* interface, and T is registered as a struct.
C1_Witness ==
    /\ nMerged = 2
    /\ fileData.package = SomeV("p")
    /\ "T" \in DeclaredTypes(fileData)
    /\ FirstDeclKind(fileData, "T") = "interface"
    /\ <<"p", "T">> \in DOMAIN firstDecl
    /\ firstDecl[<<"p", "T">>].call = 1
    /\ firstDecl[<<"p", "T">>].kind = "struct"
    /\ projectData.Packages["p"].Types["T"].Kind = "struct"

\* Every FunctionData stored in package p of pd, with the place that holds it.
StoredIn(pd, p) ==
    {[in |-> "Functions", package |-> p, type |-> "", key |-> f,
      fn |-> pd.Packages[p].Functions[f]] : f \in DOMAIN pd.Packages[p].Functions}
    \cup
    UNION {{[in |-> "Methods", package |-> p, type |-> t, key |-> f,
             fn |-> pd.Packages[p].Types[t].Methods[f]] :
                f \in DOMAIN pd.Packages[p].Types[t].Methods} :
           t \in DOMAIN pd.Packages[p].Types}

Stored(pd) == UNION {StoredIn(pd, p) : p \in DOMAIN pd.Packages}

\* No dropped method fact is held by any map of the model.
NoDroppedStored == \A d \in dropped : \A s \in Stored(projectData) : s.fn.ptr # d.ptr

\* C2: a function fact with receiver T merged into package p after an earlier
\* file registered T appears in p.Types[T].Methods; a method fact merged
\* while T is declared by no file merged so far is dropped, and it is in no
\* map of the model from then on, also once a later file declares T.
C2_MethodAttachmentOrder ==
    [][MergeStep =>
        /\ fileData'.package.ok =>
               \A i \in MethodFacts(fileData') :
                   LET p == fileData'.package.val
                       fact == fileData'.functions.val[i]
                   IN  fact.receiver.val \in DOMAIN TypesOf(projectData, p) =>
                           /\ fact.name.val \in
                                  DOMAIN projectData'.Packages[p].Types[fact.receiver.val].Methods
                           /\ projectData'.Packages[p].Types[fact.receiver.val]
                                  .Methods[fact.name.val].Receiver = fact.receiver.val
        /\ NoDroppedStored'
        /\ \A d \in dropped' :
               d.receiver \in DOMAIN TypesOf(projectData', d.package) =>
                   \A m \in DOMAIN TypesOf(projectData', d.package)[d.receiver].Methods :
                       TypesOf(projectData', d.package)[d.receiver].Methods[m].ptr[1]
                           >= firstDecl'[<<d.package, d.receiver>>].call
    ]_vars

\* The first file of p carried method m of T, the second declared T: T is
\* registered and has no method.
C2_Witness ==
    /\ nMerged = 2
    /\ \E d \in dropped : d.package = "p" /\ d.receiver = "T" /\ d.name = "m" /\ d.ptr[1] = 1
    /\ <<"p", "T">> \in DOMAIN firstDecl
    /\ firstDecl[<<"p", "T">>].call = 2
    /\ "T" \in DOMAIN TypesOf(projectData, "p")
    /\ DOMAIN projectData.Packages["p"].Types["T"].Methods = {}

\* C3: types and free functions of a package have separate namespaces: a
\* merge registers every named type fact under Types and every free function
\* fact under Functions, whatever the other map holds under that name, and
\* no merge removes a key from either map.
C3_NamespaceSeparation ==
    [][MergeStep =>
        /\ \A p \in DOMAIN projectData.Packages :
               /\ p \in DOMAIN projectData'.Packages
               /\ DOMAIN projectData.Packages[p].Types \subseteq DOMAIN projectData'.Packages[p].Types
               /\ DOMAIN projectData.Packages[p].Functions
                      \subseteq DOMAIN projectData'.Packages[p].Functions
        /\ fileData'.package.ok =>
               LET p == fileData'.package.val
               IN  /\ DeclaredTypes(fileData') \subseteq DOMAIN projectData'.Packages[p].Types
                   /\ \A i \in FreeFacts(fileData') :
                          fileData'.functions.val[i].name.val
                              \in DOMAIN projectData'.Packages[p].Functions
    ]_vars

\* Package p holds a type T and a free function T, the type registered by
\* the first file and the function by the second.
C3_Witness ==
    /\ nMerged = 2
    /\ "p" \in DOMAIN projectData.Packages
    /\ "T" \in DOMAIN projectData.Packages["p"].Types
    /\ "T" \in DOMAIN projectData.Packages["p"].Functions
    /\ firstDecl[<<"p", "T">>].call = 1
    /\ projectData.Packages["p"].Functions["T"].ptr[1] = 2

RECURSIVE SumOver(_, _)
SumOver(f, S) ==
    IF S = {} THEN 0 ELSE LET x == CHOOSE y \in S : TRUE IN f[x] + SumOver(f, S \ {x})

\* C4: Imports[package] holds one occurrence of a path per import entry of
\* the merged files of the package (N files importing x give N occurrences of
\* x), and its length is the total number of their import entries.
C4_ImportAccumulation ==
    \A p \in PackageNames :
        /\ \A x \in ImportPaths : CountIn(x, ImportsOf(projectData, p)) = nImported[<<p, x>>]
        /\ Len(ImportsOf(projectData, p)) =
               SumOver([x \in ImportPaths |-> nImported[<<p, x>>]], ImportPaths)

\* Two files of package p each imported x, and x occurs twice.
C4_Witness ==
    /\ nMerged = 2
    /\ nImported[<<"p", "x">>] = 2
    /\ CountIn("x", ImportsOf(projectData, "p")) = 2

\* C5: a merge of a file of package p appends the file's import list, in its
\* own order, to Imports[p]: what Imports held before stays as the prefix,
\* and the Imports of the other packages do not change.
C5_ImportOrder ==
    [][MergeStep =>
        /\ \A p \in DOMAIN projectData.Imports :
               /\ p \in DOMAIN projectData'.Imports
               /\ IsPrefix(projectData.Imports[p], projectData'.Imports[p])
        /\ (fileData'.package.ok /\ fileData'.imports.ok) =>
               LET p == fileData'.package.val
                   old == ImportsOf(projectData, p)
                   new == ImportsOf(projectData', p)
               IN  /\ Len(new) = Len(old) + Len(fileData'.imports.val)
                   /\ SubSeq(new, Len(old) + 1, Len(new)) = fileData'.imports.val
                   /\ \A q \in PackageNames \ {p} :
                          ImportsOf(projectData', q) = ImportsOf(projectData, q)
    ]_vars

\* The first file of p imported x and y, the second x.
C5_Witness ==
    /\ nMerged = 2
    /\ fileData.package = SomeV("p")
    /\ fileData.imports = SomeV(<<"x">>)
    /\ ImportsOf(projectData, "p") = <<"x", "y", "x">>

\* C6: Packages has one entry per package name declared by the merged
\* files, stored under its name; a file of a package that exists already
\* keeps the PackageData: its types, with their kinds and methods, and its
\* functions stay registered.
C6_OnePackagePerName ==
    [][MergeStep =>
        /\ DOMAIN projectData'.Packages = declared'
        /\ \A p \in DOMAIN projectData'.Packages : projectData'.Packages[p].Name = p
        /\ \A p \in DOMAIN projectData.Packages :
               /\ p \in DOMAIN projectData'.Packages
               /\ \A t \in DOMAIN projectData.Packages[p].Types :
                      /\ t \in DOMAIN projectData'.Packages[p].Types
                      /\ projectData'.Packages[p].Types[t].Kind =
                             projectData.Packages[p].Types[t].Kind
                      /\ DOMAIN projectData.Packages[p].Types[t].Methods
                             \subseteq DOMAIN projectData'.Packages[p].Types[t].Methods
               /\ DOMAIN projectData.Packages[p].Functions
                      \subseteq DOMAIN projectData'.Packages[p].Functions
    ]_vars

\* Two files declared package p: there is one package, and the type and the
\* function the first file registered are still there after the second.
C6_Witness ==
    /\ nMerged = 2
    /\ declared = {"p"}
    /\ fileData.package = SomeV("p")
    /\ fileData.types = SomeV(<< >>)
    /\ fileData.functions = SomeV(<< >>)
    /\ Cardinality(DOMAIN projectData.Packages) = 1
    /\ "T" \in DOMAIN projectData.Packages["p"].Types
    /\ "m" \in DOMAIN projectData.Packages["p"].Functions

\* C7: no function fact that carries a receiver is stored in a Functions
\* map: after a merge, the FunctionData made for such a fact is held by the
\* Methods of its receiver type in the file's package or by no map, and
\* every FunctionData in a Functions map has an empty Receiver.
C7_MethodsNeverInFunctions ==
    [][MergeStep =>
        /\ \A s \in Stored(projectData') : s.in = "Functions" => s.fn.Receiver = ""
        /\ \A i \in MethodFacts(fileData') :
               \A s \in Stored(projectData') :
                   s.fn.ptr = <<nMerged', i>> =>
                       /\ fileData'.package.ok
                       /\ s.in = "Methods"
                       /\ s.package = fileData'.package.val
                       /\ s.type = fileData'.functions.val[i].receiver.val
                       /\ s.key = fileData'.functions.val[i].name.val
    ]_vars

\* A file merged method m of the unknown receiver T after a free function m
\* was registered: Functions still holds the free function, nothing else.
C7_Witness ==
    /\ nMerged = 2
    /\ \E d \in dropped : d.package = "p" /\ d.name = "m" /\ d.ptr[1] = 2
    /\ "m" \in DOMAIN FunctionsOf(projectData, "p")
    /\ FunctionsOf(projectData, "p")["m"].ptr[1] = 1
    /\ FunctionsOf(projectData, "p")["m"].Receiver = ""

\* C8: the merge of a file for which no package name was extracted changes
\* nothing: Packages, Imports and Relations are as before, and no package is
\* stored under the empty name.
C8_NoPackageNoOp ==
    [][(MergeStep /\ ~fileData'.package.ok) =>
        /\ projectData'.Packages = projectData.Packages
        /\ projectData'.Imports = projectData.Imports
        /\ projectData'.Relations = projectData.Relations
        /\ "" \notin DOMAIN projectData'.Packages
    ]_vars

\* After a file of package p, a file without package name that carries
\* imports, a type and functions was merged.
C8_Witness ==
    /\ nMerged = 2
    /\ ~fileData.package.ok
    /\ Len(fileData.imports.val) > 0
    /\ Len(fileData.types.val) > 0
    /\ Len(fileData.functions.val) > 0
    /\ DOMAIN projectData.Packages = {"p"}

\* The walk of C9: a root holding two readable .go files, one with a package
\* clause and one without.
C9_Scenario ==
    /\ ~tree.rootErr
    /\ Len(tree.entries) = 2
    /\ \A i \in 1..2 :
           ~tree.entries[i].isDir /\ tree.entries[i].ext = ".go"
           /\ ~tree.entries[i].err /\ tree.entries[i].readable
    /\ \E i \in 1..2 : tree.entries[i].src.packageIdent.ok
    /\ \E i \in 1..2 : ~tree.entries[i].src.packageIdent.ok

\* C9: when the walk over one well-formed file and one file without a
\* package clause ends, ParseGoProject has returned the model, the model
\* has exactly one package, and the diagnostics are exactly one entry, which
\* names the file without package clause.
C9_DiagnosticsCompleteness ==
    (C9_Scenario /\ outcome # "walking") =>
        /\ outcome = "ok"
        /\ Cardinality(DOMAIN projectData.Packages) = 1
        /\ Len(Diagnostics) = 1
        /\ ~tree.entries[Diagnostics[1][1]].src.packageIdent.ok

\* C10: every method fact merged while its receiver type was not registered
\* in the file's package is dropped, and a diagnostic naming the call that
\* merged its file is recorded.
C10_UnresolvedReceiverDiagnosed ==
    \A d \in dropped :
        /\ \A s \in Stored(projectData) : s.fn.ptr # d.ptr
        /\ \E k \in DOMAIN Diagnostics : Diagnostics[k][1] = d.ptr[1]

\* The .go files under the root that parseGoFile can read and parse.
GoFiles(t) ==
    {i \in 1..Len(t.entries) :
        ~t.entries[i].isDir /\ t.entries[i].ext = ".go" /\ t.entries[i].readable}

\* C11: when the walk itself meets no error, a file whose extraction fails
\* is skipped: the run ends with the model returned, no error, and every
\* other .go file under the root merged.
C11_SkipAndContinue ==
    (/\ outcome # "walking"
     /\ ~tree.rootErr
     /\ \A i \in 1..Len(tree.entries) : ~tree.entries[i].err) =>
        /\ outcome = "ok"
        /\ ReturnedModel.ok
        /\ nMerged = Cardinality(GoFiles(tree))

\* C12: when the root cannot be read, ParseGoProject visits nothing below
\* it and merges no file, and it returns a nil model with a non-nil error.
C12_FatalRootFailure ==
    tree.rootErr =>
        /\ pos = 0
        /\ nMerged = 0
        /\ projectData = NewProjectData
        /\ outcome \in {"walking", "error"}
        /\ outcome # "walking" => (ReturnedError /\ ~ReturnedModel.ok)

\* The run over an unreadable root that holds a well-formed .go file ended.
C12_Witness ==
    /\ tree.rootErr
    /\ outcome = "error"
    /\ GoFiles(tree) # {}
    /\ ~ReturnedModel.ok

\* The tree of the end-to-end scenario, in walk order: main.go, pkg,
\* pkg/service.go.
C13_Scenario ==
    tree = [rootErr |-> FALSE,
            entries |-> << Entry(FALSE, ".go", FALSE, TRUE, MainSource),
                           Entry(TRUE, "", FALSE, FALSE, NoSource),
                           Entry(FALSE, ".go", FALSE, TRUE, ServiceSource) >>]

\* C13: the run over the scenario returns a model with exactly two
\* packages, pkg.Types["Service"] with exactly the method Name,
\* pkg.Functions["NewService"], a non-empty main.Functions, and
\* Imports["main"] = <<"fmt", "pkg">>.
C13_EndToEnd ==
    (C13_Scenario /\ outcome # "walking") =>
        /\ outcome = "ok"
        /\ Cardinality(DOMAIN projectData.Packages) = 2
        /\ "Service" \in DOMAIN TypesOf(projectData, "pkg")
        /\ "NewService" \in DOMAIN FunctionsOf(projectData, "pkg")
        /\ DOMAIN FunctionsOf(projectData, "main") # {}
        /\ ImportsOf(projectData, "main") = <<"fmt", "pkg">>
        /\ DOMAIN TypesOf(projectData, "pkg")["Service"].Methods = {"Name"}

\* What a merge in progress has made of the ProjectData it found on entry,
\* when nothing else wrote to it meanwhile.
Progress(a) ==
    LET p == a.fd.package.val
        created == CreatePackage(a.before, p)
        imported == AddImports(created, p, a.fd.imports)
    IN  CASE a.pc = "package" -> a.before
          [] a.pc = "imports" -> created
          [] a.pc = "types" -> imported
          [] a.pc = "functions" -> AddTypes(imported, p, a.fd.types)

\* C14: at most one mergeFileData call is in progress at any time, it is
\* the call for the file visited last, and the shared ProjectData holds
\* exactly what that call alone has written since it began: the steps of
\* two merges never interleave.
C14_MergeSerialized ==
    /\ Cardinality(inMerge) <= 1
    /\ \A a \in inMerge : a.call = nMerged /\ projectData = Progress(a)

\* The merge of a second file is under way on what the first one left.
C14_Witness ==
    \E a \in inMerge :
        /\ a.call = 2
        /\ a.pc = "functions"
        /\ a.before # NewProjectData
        /\ projectData # a.before

\* C15: the merge of a file of package p leaves every other package as it
\* was and creates none but p; a method fact of the file is stored, if at
\* all, under its receiver in p.Types, and it is stored nowhere when p does
\* not declare the receiver, also when another package declares a type of
\* that name.
C15_ReceiverLookupLocal ==
    [][(MergeStep /\ fileData'.package.ok) =>
        LET p == fileData'.package.val
        IN  /\ DOMAIN projectData'.Packages = DOMAIN projectData.Packages \cup {p}
            /\ \A q \in DOMAIN projectData.Packages \ {p} :
                   projectData'.Packages[q] = projectData.Packages[q]
            /\ \A i \in MethodFacts(fileData') :
                   LET receiver == fileData'.functions.val[i].receiver.val
                       held == {s \in Stored(projectData') : s.fn.ptr = <<nMerged', i>>}
                   IN  /\ \A s \in held :
                              s.in = "Methods" /\ s.package = p /\ s.type = receiver
                       /\ receiver \notin DOMAIN TypesOf(projectData', p) => held = {}
    ]_vars

\* Package q declares T, and a file of package p, which does not, brought a
\* method of T: q.Types["T"] has no method.
C15_Witness ==
    /\ nMerged = 2
    /\ \E d \in dropped : d.package = "p" /\ d.receiver = "T" /\ d.ptr[1] = 2
    /\ "T" \in DOMAIN TypesOf(projectData, "q")
    /\ "T" \notin DOMAIN TypesOf(projectData, "p")
    /\ DOMAIN TypesOf(projectData, "q")["T"].Methods = {}

\* C16: registration of functions and methods is create-if-absent: every
\* entry of a Functions or Methods map before a merge is the same object
\* under the same key after it.
C16_RegistrationFirstWins ==
    [][MergeStep => \A s \in Stored(projectData) : s \in Stored(projectData')]_vars

\* Every key of the model names the object stored under it.
WellFormed(pd) ==
    /\ DOMAIN pd.Imports \subseteq DOMAIN pd.Packages
    /\ \A p \in DOMAIN pd.Packages :
           /\ pd.Packages[p].Name = p
           /\ \A t \in DOMAIN pd.Packages[p].Types : pd.Packages[p].Types[t].Name = t
    /\ \A s \in Stored(pd) : s.fn.Name = s.key

\* C17: mergeFileData returns normally on every facts value and leaves a
\* well-formed model; a field that is missing or of another type leaves its
\* part of the model as it was, and an entry without a name is skipped, every
\* named entry of the same list, before or after it, being merged as usual.
C17_MergeNeverAborts ==
    [][MergeStep =>
        /\ WellFormed(projectData')
        /\ fileData'.package.ok =>
               LET p == fileData'.package.val
                   fns == fileData'.functions.val
               IN  /\ p \in DOMAIN projectData'.Packages
                   /\ DeclaredTypes(fileData') \subseteq DOMAIN TypesOf(projectData', p)
                   /\ \A i \in FreeFacts(fileData') :
                          /\ fns[i].name.val \in DOMAIN FunctionsOf(projectData', p)
                          /\ \E j \in FreeFacts(fileData') :
                                 FunctionsOf(projectData', p)[fns[i].name.val].ptr
                                     = <<nMerged', j>>
                   /\ \A i \in MethodFacts(fileData') :
                          fns[i].receiver.val \in DOMAIN TypesOf(projectData', p) =>
                              fns[i].name.val \in
                                  DOMAIN TypesOf(projectData', p)[fns[i].receiver.val].Methods
                   /\ ~fileData'.imports.ok =>
                          ImportsOf(projectData', p) = ImportsOf(projectData, p)
                   /\ ~fileData'.types.ok =>
                          DOMAIN TypesOf(projectData', p) = DOMAIN TypesOf(projectData, p)
                   /\ ~fileData'.functions.ok =>
                          Stored(projectData') = Stored(projectData)
    ]_vars

\* The file merged last had no imports field, a nameless type before type T
\* and a nameless function before function m: T and m are registered.
C17_Witness ==
    /\ nMerged = 2
    /\ fileData.package = SomeV("p")
    /\ ~fileData.imports.ok
    /\ fileData.types.ok /\ ~fileData.types.val[1].name.ok
    /\ fileData.functions.ok /\ ~fileData.functions.val[1].name.ok
    /\ "T" \in DOMAIN TypesOf(projectData, "p")
    /\ "m" \in DOMAIN FunctionsOf(projectData, "p")
    /\ FunctionsOf(projectData, "p")["m"].ptr = <<2, 2>>

\* The kind a declared form stands for: "struct", "interface", or none.
FormKind(form) ==
    IF form \in {"struct", "interface"} THEN SomeV(form) ELSE NoString

\* C18: the type facts extracted from a file carry the kind of the declared
\* form of each named declaration, in order: "struct" for a struct type,
\* "interface" for an interface type, none for any other form, whatever the
\* types nested in the declaration.
C18_KindFollowsForm ==
    [][MergeStep =>
        LET decls == SelectSeq(tree.entries[pos].src.typeDecls, LAMBDA d : d.name.ok)
            types == fileData'.types.val
        IN  /\ Len(types) = Len(decls)
            /\ \A i \in 1..Len(decls) :
                   /\ types[i].name = decls[i].name
                   /\ types[i].kind = FormKind(decls[i].form)
    ]_vars

\* The names of the method facts of fd whose receiver is t.
MethodNamesFor(fd, t) ==
    {fd.functions.val[i].name.val :
        i \in {j \in MethodFacts(fd) : fd.functions.val[j].receiver.val = t}}

\* C19: after every merge Relations is empty and every TypeData has no
\* field and an empty Implements list; a type registered before the merge
\* keeps its kind and gains no method but those of the method facts of the
\* file that name it as receiver, so a duplicate declaration adds nothing.
C19_NoDerivedData ==
    [][MergeStep =>
        /\ projectData'.Relations = EmptyMap
        /\ \A p \in DOMAIN projectData'.Packages :
               \A t \in DOMAIN projectData'.Packages[p].Types :
                   /\ projectData'.Packages[p].Types[t].Fields = EmptyMap
                   /\ projectData'.Packages[p].Types[t].Implements = << >>
        /\ \A p \in DOMAIN projectData.Packages :
               \A t \in DOMAIN projectData.Packages[p].Types :
                   LET old == projectData.Packages[p].Types[t]
                       new == projectData'.Packages[p].Types[t]
                   IN  /\ new.Kind = old.Kind
                       /\ DOMAIN new.Methods \subseteq
                              DOMAIN old.Methods \cup
                                  (IF fileData'.package = SomeV(p)
                                   THEN MethodNamesFor(fileData', t) ELSE {})
    ]_vars

\* Type T of package p was declared by the first file and again, with
\* another kind, by the second.
C19_Witness ==
    /\ nMerged = 2
    /\ fileData.package = SomeV("p")
    /\ "T" \in DeclaredTypes(fileData)
    /\ MethodFacts(fileData) = {}
    /\ firstDecl[<<"p", "T">>].call = 1
    /\ FirstDeclKind(fileData, "T") # projectData.Packages["p"].Types["T"].Kind
    /\ projectData.Packages["p"].Types["T"].Fields = EmptyMap

\* The pairs of a relation group: its elements two by two, in order.
Pairs(r) ==
    [k \in 1..(Len(r) \div 2) |-> [from |-> r[2 * k - 1], to |-> r[2 * k], type |-> "->"]]

RECURSIVE PairsOver(_, _)
PairsOver(relations, order) ==
    IF order = << >>
    THEN << >>
    ELSE Pairs(relations[Head(order)]) \o PairsOver(relations, Tail(order))

\* C20: between two groups and at the end, the relationships emitted are,
\* group after group in the order the groups were visited, the floor(n/2)
\* pairs r[2k], r[2k+1] of each group r of length n, nothing coming from
\* the last element of a group of odd length; at the end every group was
\* visited once and the prompt carries these relationships.
C20_RelationsPairwise ==
    /\ diagram.pc \in {"range", "done"} =>
           diagram.relationships = PairsOver(projectData.Relations, diagram.order)
    /\ diagram.pc = "done" =>
           /\ diagram.order \in Orderings(DOMAIN projectData.Relations)
           /\ diagram.prompt.relationships = diagram.relationships

\* The diagram of a model with a group of three and a group of two is built.
C20_Witness ==
    /\ diagram.pc = "done"
    /\ \E g, h \in DOMAIN projectData.Relations :
          Len(projectData.Relations[g]) = 3 /\ Len(projectData.Relations[h]) = 2
    /\ Len(diagram.prompt.relationships) = 2

C22_TypesBeforeFunctions ==
    [][(MergeStep /\ fileData'.package.ok) =>
        LET p == fileData'.package.val
            fns == fileData'.functions.val
        IN  \A i \in MethodFacts(fileData') :
               fns[i].receiver.val \in DeclaredTypes(fileData') =>
                   /\ fns[i].receiver.val \in DOMAIN TypesOf(projectData', p)
                   /\ fns[i].name.val \in
                          DOMAIN TypesOf(projectData', p)[fns[i].receiver.val].Methods
                   /\ TypesOf(projectData', p)[fns[i].receiver.val]
                          .Methods[fns[i].name.val].ptr[1] = nMerged'
    ]_vars

\* The first file merged declares T and method m of T: m is attached.
C22_Witness ==
    /\ nMerged = 1
    /\ fileData.package = SomeV("p")
    /\ "T" \in DeclaredTypes(fileData)
    /\ \E i \in MethodFacts(fileData) : fileData.functions.val[i].receiver.val = "T"
    /\ TypesOf(projectData, "p")["T"].Methods["m"].ptr = <<1, 1>>

\* The model built by merging files in the order listed, starting with
\* call number call.
RECURSIVE MergeInOrder(_, _, _)
MergeInOrder(pd, files, call) ==
    IF files = << >>
    THEN pd
    ELSE MergeInOrder(mergeFileData(pd, Head(files), call), Tail(files), call + 1)

\* The number of occurrences of each element of a list.
BagOfSeq(s) == [x \in {s[i] : i \in 1..Len(s)} |-> CountIn(x, s)]

\* What of a model does not depend on the order of the files: the names of
\* the packages, of their types and of their free functions, and the
\* import paths of each package with their multiplicity.
Summary(pd) ==
    [packages |-> DOMAIN pd.Packages,
     types |-> [p \in DOMAIN pd.Packages |-> DOMAIN pd.Packages[p].Types],
     functions |-> [p \in DOMAIN pd.Packages |-> DOMAIN pd.Packages[p].Functions],
     imports |-> [p \in DOMAIN pd.Imports |-> BagOfSeq(pd.Imports[p])]]

\* C23: the model built from the files of a project merged in any order has
\* the packages, the type names and free-function names of each package and
\* the multiset of import paths of each package of the model built from the
\* same files merged in the order listed.
C23_OrderIndependence ==
    perm.todo = {} =>
        Summary(projectData) = Summary(MergeInOrder(NewProjectData, perm.files, 1))

\* Three files were merged in an order that is not the one listed, and the
\* two models differ in the order of the imports, in the kind of a type and
\* in the methods attached.
C23_Witness ==
    /\ perm.todo = {}
    /\ Len(perm.files) = 3
    /\ LET other == MergeInOrder(NewProjectData, perm.files, 1)
       IN  /\ "p" \in DOMAIN projectData.Imports
           /\ projectData.Imports["p"] # other.Imports["p"]
           /\ "T" \in DOMAIN TypesOf(projectData, "p")
           /\ TypesOf(projectData, "p")["T"].Kind # TypesOf(other, "p")["T"].Kind
           /\ DOMAIN TypesOf(projectData, "p")["T"].Methods
                  # DOMAIN TypesOf(other, "p")["T"].Methods

\* C24: after any sequence of merges every key of Imports is a key of
\* Packages, every PackageData, TypeData and FunctionData is stored under
\* its Name, every method has the name of its type as Receiver and every
\* function of a Functions map an empty Receiver.
C24_StructuralConsistency ==
    /\ DOMAIN projectData.Imports \subseteq DOMAIN projectData.Packages
    /\ \A p \in DOMAIN projectData.Packages :
           LET pkg == projectData.Packages[p]
           IN  /\ pkg.Name = p
               /\ \A t \in DOMAIN pkg.Types :
                      /\ pkg.Types[t].Name = t
                      /\ \A m \in DOMAIN pkg.Types[t].Methods :
                             /\ pkg.Types[t].Methods[m].Name = m
                             /\ pkg.Types[t].Methods[m].Receiver = t
               /\ \A f \in DOMAIN pkg.Functions :
                      /\ pkg.Functions[f].Name = f
                      /\ pkg.Functions[f].Receiver = ""

\* Package p has imports, type T with method m, and the free functions m
\* and T.
C24_Witness ==
    /\ "p" \in DOMAIN projectData.Imports
    /\ projectData.Imports["p"] # << >>
    /\ "T" \in DOMAIN TypesOf(projectData, "p")
    /\ "m" \in DOMAIN TypesOf(projectData, "p")["T"].Methods
    /\ DOMAIN FunctionsOf(projectData, "p") = {"m", "T"}

\* C25: in a run of ParseGoProject the facts merged carry no receiver, no
\* type of the model has a method, no method fact was dropped, and every
\* function name extracted from a file merged so far that has a package
\* name is a key of the Functions map of its package.
C25_NoMethodsInPipeline ==
    /\ MethodFacts(fileData) = {}
    /\ dropped = {}
    /\ \A s \in Stored(projectData) : s.in = "Functions"
    /\ \A i \in GoFiles(tree) :
           LET src == tree.entries[i].src
           IN  (i < pos /\ src.packageIdent.ok) =>
                   \A k \in 1..Len(src.funcDecls) :
                       src.funcDecls[k].ok =>
                           src.funcDecls[k].val \in
                               DOMAIN FunctionsOf(projectData, src.packageIdent.val)

\* The run over a file that declares type Service, function NewService and
\* a method of Service returned: Service has no method.
C25_Witness ==
    /\ outcome = "ok"
    /\ \E i \in GoFiles(tree) : tree.entries[i].src = ServiceSource
    /\ "Service" \in DOMAIN TypesOf(projectData, "pkg")
    /\ TypesOf(projectData, "pkg")["Service"].Methods = EmptyMap
    /\ "NewService" \in DOMAIN FunctionsOf(projectData, "pkg")

\* C26: an invocation of callAI with an API key makes at most maxRetries
\* requests and, once its loop is over, has made at least one; after a
\* request answered with status 200 and read it makes no other; and the
\* retry loop always comes to an end.
C26_BoundedRetry ==
    /\ [](/\ ai.requests <= maxRetries
          /\ (ai.apiKey /\ (ai.pc = "after" \/ (ai.pc = "loop" /\ ~LoopContinues(ai.retry))))
                 => ai.requests >= 1
          /\ (ai.apiKey /\ ai.stage >= 1 /\ ai.pc \in {"idle", "returned"})
                 => ai.requests >= 1
          /\ ai.okAt # 0 => ai.requests = ai.okAt)
    /\ ((ai.pc = "loop") ~> (ai.pc # "loop"))

\* The third request of an invocation was the first to be answered with 200.
C26_Witness ==
    /\ ai.pc = "after"
    /\ ai.requests = maxRetries
    /\ ai.okAt = maxRetries
    /\ ai.prev.outcome = "status 200"

\* The keys of the map GenerateDiagrams returns.
DiagramKeys == {DiagramKey(DiagramTypes[k]) : k \in 1..Len(DiagramTypes)}

\* C27: no invocation of callAI returns an error, so GenerateDiagrams does
\* not fail and returns the diagrams class-diagram, package-diagram and
\* sequence-diagram; the diagram of an invocation is the fallback diagram
\* of its type when the API key is unset, when every retry failed, and when
\* the answer could not be parsed, had no text part or gave no Mermaid code.
C27_FallbackNotFailure ==
    /\ ~ai.failed
    /\ ai.pc = "returned" => DOMAIN ai.diagrams = DiagramKeys
    /\ (ai.stage >= 1 /\ ai.pc \in {"idle", "returned"}) =>
           LET diagramType == DiagramTypes[ai.stage]
               stored == ai.diagrams[DiagramKey(diagramType)]
           IN  IF ~ai.apiKey \/ ai.apiError \/ ai.body \in {"unparsable", "no text", "no code"}
               THEN stored = [kind |-> "fallback", code |-> diagramType, title |-> diagramType]
               ELSE stored.kind = "markdown" /\ stored.title = diagramType

\* GenerateDiagrams returned: the class diagram after three failed requests,
\* the package diagram from an answer without code, the last one from code.
C27_Witness ==
    /\ ai.pc = "returned"
    /\ ai.apiKey
    /\ ai.diagrams["class-diagram"].kind = "fallback"
    /\ ai.diagrams["package-diagram"].kind = "fallback"
    /\ ai.diagrams["sequence-diagram"].kind = "markdown"

\* C28: a request starts at least minTimeBetweenCalls after the one before
\* it, in the same invocation or in an earlier one, and at least 4*2^r
\* seconds after the answer to the one before when that answer was a 429 on
\* retry r; lastAPICall is the start time of the latest request and changes
\* with no other step.
C28_RateLimiting ==
    [][IF ai'.prev # ai.prev
       THEN /\ ai'.lastAPICall = ai'.prev.start
            /\ ai.prev.outcome # "none" =>
                   ai'.prev.start - ai.prev.start >= minTimeBetweenCalls
            /\ ai.prev.outcome = "status 429" =>
                   ai'.prev.start >= ai.prev.end + 4 * 2^(ai.prev.retry)
       ELSE ai'.lastAPICall = ai.lastAPICall
    ]_vars

\* In the second invocation the request of retry 2 has started, after a
\* 429 on retry 1; the first request of that invocation, made right after
\* the last one of the first invocation, had waited for the rate limit.
C28_Witness ==
    /\ ai.stage = 1
    /\ ai.prev.retry = 2
    /\ ai.prev.after = "status 429"
    /\ ai.prev.start = ai.prev.end - 1
    /\ ai.lastAPICall = ai.prev.start
    /\ \E first \in StartTimes : ai.prev.start >= first + 2 * minTimeBetweenCalls + 4 * 2

\* The opening marker of a content with a fence: where it starts and how
\* many pieces it has, the fence alone or the fence with its tag.
OpeningAt(content) ==
    IF IndexTagged(content) # 0 THEN IndexTagged(content) ELSE IndexFence(content)

OpeningLen(content) == IF IndexTagged(content) # 0 THEN 2 ELSE 1

\* The closing fence: the first fence after the opening marker, 0 for none.
ClosingAt(content) ==
    LET later == {i \in (OpeningAt(content) + OpeningLen(content))..Len(content) :
                    content[i] = "fence"}
    IN  IF later = {} THEN 0 ELSE CHOOSE i \in later : \A j \in later : i <= j

AfterMarker(content) == OpeningAt(content) + OpeningLen(content)

\* C29: extractMermaidCode returns (a) the content unchanged when it holds no
\* fence; (b) with an opening fence, tagged or not, and a later closing
\* fence, the trimmed text strictly between the opening marker with its tag
\* and the closing fence; (c) with an opening fence and no closing fence,
\* everything after the start marker, which for a tagged block is the fence
\* with the word mermaid, so that the result does not begin with that word.
C29_ExtractMermaidCode ==
    extract.done =>
        LET content == extract.content
        IN  /\ IndexFence(content) = 0 => extract.mermaidCode = content
            /\ IndexFence(content) # 0 /\ ClosingAt(content) # 0 =>
                 extract.mermaidCode =
                     TrimSpace(SubSeq(content, AfterMarker(content), ClosingAt(content) - 1))
            /\ IndexFence(content) # 0 /\ ClosingAt(content) = 0 =>
                 /\ extract.mermaidCode =
                        SubSeq(content, AfterMarker(content), Len(content))
                 /\ IndexTagged(content) # 0 =>
                        (extract.mermaidCode = << >> \/ Head(extract.mermaidCode) # "mermaid")

\* A path is the directory or lies under it.
Inside(path, dir) == Len(path) >= Len(dir) /\ SubSeq(path, 1, Len(dir)) = dir

\* C30: when CloneRepository or FetchSingleFile returns an error after it
\* made its temporary directory, that directory and everything in it are
\* gone and the returned path is empty; when it returns no error, the
\* returned path exists and is inside the temporary directory, which is
\* still there.
C30_CleanUpOnFailure ==
    acq.n > 0 /\ acq.call.tempDir # NoPath =>
        IF acq.call.err # "nil"
        THEN /\ \A p \in acq.fs : ~Inside(p, acq.call.tempDir)
             /\ acq.call.path = NoPath
        ELSE /\ acq.call.tempDir \in acq.fs
             /\ acq.call.path \in acq.fs
             /\ Inside(acq.call.path, acq.call.tempDir)

\* A download whose write failed after the file was created, made through
\* CloneRepository, while the directory of an earlier success is kept.
C30_Witness ==
    /\ acq.n = 2
    /\ acq.call.fn = "FetchSingleFile"
    /\ acq.call.err = "failed to write file"
    /\ acq.call.tempDir = MkdirTemp("mermgen-file-", 2)
    /\ acq.fs = {MkdirTemp("mermgen-", 1), Append(MkdirTemp("mermgen-", 1), Name(".git"))}

====
